---------------------------- MODULE Spec2Model ----------------------------
(***************************************************************************)
(* A model of src/components/xmlToXls.tsx: the two XML-to-Excel converter  *)
(* components (the monthly variant, lines 15-245, and the ungrouped        *)
(* variant, lines 263-484).                                                *)
(*                                                                         *)
(* Texts are sequences of one-character strings, so that the regular       *)
(* expression of sanitizeXML, String.split and Number act on characters.   *)
(* A parsed document is the sequence of its elements in document order,    *)
(* each with its depth: the subtree of an element is the run of deeper     *)
(* elements that follows it.                                               *)
(***************************************************************************)
EXTENDS Integers, Sequences, FiniteSets, TLC

VARIABLES
    pc,                \* position of the run: which step comes next
    xmlString,         \* sanitizeXML: the decoded text handed to it
    sanitizedXml,      \* sanitizeXML(xmlString)
    resanitizedXml,    \* sanitizeXML(sanitizedXml)
    xmlDoc,            \* the document DOMParser returned
    parsedData,        \* outcome of parseXML(xmlDoc)
    surgeries,         \* groupSurgeriesByMonth: the records handed to it
    groupedSurgeries,  \* outcome of groupSurgeriesByMonth(surgeries)
    variant,           \* "monthly" (lines 15-245) or "ungrouped" (lines 263-484)
    file,              \* useState: the selected file
    error,             \* useState: the error message
    conversionStatus,  \* useState (monthly): the success message
    partialData,       \* useState (ungrouped): the records of the last conversion
    written,           \* XLSX.writeFile calls of the latest conversion attempt
    pending,           \* file reads started by handleSubmit and not yet delivered
    lastAttempt        \* outcome of the most recent finished conversion attempt

sanVars == <<xmlString, sanitizedXml, resanitizedXml>>
extVars == <<xmlDoc, parsedData>>
grpVars == <<surgeries, groupedSurgeries>>
uiVars  == <<variant, file, error, conversionStatus, partialData, written, pending, lastAttempt>>
vars    == <<pc, sanVars, extVars, grpVars, uiVars>>

-----------------------------------------------------------------------------
(* Bounds of the model.                                                    *)

MaxLen == 5        \* characters of a text handed to sanitizeXML
MaxNodes == 5      \* elements of a free-form document
MaxItems == 6      \* groups + patients + surgeries of an export-shaped document
MaxRecords == 3    \* records handed to groupSurgeriesByMonth
MaxPending == 2    \* file reads in flight at once

-----------------------------------------------------------------------------
(* JavaScript values.                                                      *)

\* A value that is a string or undefined (the result of `?.textContent`).
Undefined == [type |-> "undefined", val |-> <<>>]
Str(t) == [type |-> "string", val |-> t]

\* A mutant: the `|| ""` left out.
OrEmptyNoDefault(v) == v

\* `v || ""`: undefined and the empty string are falsy.
OrEmpty(v) == IF v.type = "undefined" \/ v.val = <<>> THEN Str(<<>>) ELSE v

\* A number or NaN.
NaN == [nan |-> TRUE, n |-> 0]
Num(n) == [nan |-> FALSE, n |-> n]

\* useState<string | null>.
Null == [isNull |-> TRUE, msg |-> ""]
Msg(s) == [isNull |-> FALSE, msg |-> s]
Truthy(e) == ~e.isNull /\ e.msg # ""

-----------------------------------------------------------------------------
(* sanitizeXML, lines 28-33 and 289-295 (the same text in both variants).  *)

BOM == "BOM"                             \* the code point 0xFEFF
WordChars == {"a", "b"}                  \* the \w characters of the alphabet
SanChars == {BOM, "<", "/", "$", ">"} \cup WordChars

RECURSIVE WordRunEnd(_, _)
\* \w+ is greedy: the index of the last character of the run of word
\* characters that starts at j (j - 1 when s[j] is no word character).
WordRunEnd(s, j) ==
    IF j <= Len(s) /\ s[j] \in WordChars THEN WordRunEnd(s, j + 1) ELSE j - 1

\* /<(\/?)\w+\$/ tried at position i: 0 when it does not match there, else
\* the index of the `$` that ends the match. `$` and `/` are no word
\* characters, so backtracking finds no other match.
MatchEnd(s, i) ==
    IF i > Len(s) \/ s[i] # "<" THEN 0
    ELSE LET j == IF i + 1 <= Len(s) /\ s[i + 1] = "/" THEN i + 2 ELSE i + 1
             k == WordRunEnd(s, j)
         IN IF k >= j /\ k + 1 <= Len(s) /\ s[k + 1] = "$" THEN k + 1 ELSE 0

RECURSIVE ReplaceFrom(_, _)
\* String.replace with the g flag: matches are taken left to right, each
\* replaced by "<$1" (the `<` and the optional `/`), the scan resuming
\* after the match.
ReplaceFrom(s, i) ==
    IF i > Len(s) THEN <<>>
    ELSE LET m == MatchEnd(s, i)
         IN IF m = 0 THEN <<s[i]>> \o ReplaceFrom(s, i + 1)
            ELSE (IF s[i + 1] = "/" THEN <<"<", "/">> ELSE <<"<">>)
                     \o ReplaceFrom(s, m + 1)

\* charCodeAt(0) === 0xfeff, then slice(1).
StripBOM(s) == IF Len(s) > 0 /\ s[1] = BOM THEN Tail(s) ELSE s

sanitizeXML(s) == ReplaceFrom(StripBOM(s), 1)

-----------------------------------------------------------------------------
(* The sanitizer on its own: the environment supplies a text, character by *)
(* character; sanitizeXML is applied to it, and once more to its result.   *)

NoText == [done |-> FALSE, val |-> <<>>]
Done(t) == [done |-> TRUE, val |-> t]

IdleSan == xmlString = <<>> /\ sanitizedXml = NoText /\ resanitizedXml = NoText
IdleExt == xmlDoc = <<>> /\ parsedData = [done |-> FALSE]
IdleGrp == surgeries = <<>> /\ groupedSurgeries = [done |-> FALSE]
IdleUI  == /\ variant = "monthly" /\ file = [selected |-> FALSE, doc |-> <<>>] /\ error = Null
           /\ conversionStatus = Null /\ partialData = <<>> /\ written = <<>>
           /\ pending = <<>> /\ lastAttempt = "none"

InitSan == pc = "input" /\ IdleSan /\ IdleExt /\ IdleGrp /\ IdleUI

TypeChar ==
    /\ pc = "input" /\ Len(xmlString) < MaxLen
    /\ \E c \in SanChars : xmlString' = Append(xmlString, c)
    /\ UNCHANGED <<pc, sanitizedXml, resanitizedXml, extVars, grpVars, uiVars>>

Sanitize ==
    /\ pc = "input"
    /\ sanitizedXml' = Done(sanitizeXML(xmlString))
    /\ pc' = "sanitized"
    /\ UNCHANGED <<xmlString, resanitizedXml, extVars, grpVars, uiVars>>

SanitizeAgain ==
    /\ pc = "sanitized"
    /\ resanitizedXml' = Done(sanitizeXML(sanitizedXml.val))
    /\ pc' = "resanitized"
    /\ UNCHANGED <<xmlString, sanitizedXml, extVars, grpVars, uiVars>>

NextSan == TypeChar \/ Sanitize \/ SanitizeAgain

SpecSan == InitSan /\ [][NextSan]_vars

-----------------------------------------------------------------------------
(* The document tree and the DOM calls the code makes on it.               *)

LOCAL_TEXT == <<"L", "O", "C", "A", "L">>
GERAL_TEXT == <<"G", "E", "R", "A", "L">>

Variants == {"monthly", "ungrouped"}

Element(tag, text, depth) == [tag |-> tag, text |-> text, depth |-> depth]

\* The last element of the subtree of element i.
SubEnd(doc, i) ==
    LET later == {j \in (i + 1)..Len(doc) : doc[j].depth <= doc[i].depth}
    IN IF later = {} THEN Len(doc)
       ELSE (CHOOSE j \in later : \A k \in later : j <= k) - 1

\* The indices lo..hi, ascending.
Range(lo, hi) == [k \in 1..(IF hi >= lo THEN hi - lo + 1 ELSE 0) |-> lo + k - 1]

\* element.getElementsByTagName(tag): the descendants of i with that tag,
\* in document order (the element itself is not among them).
getElementsByTagName(doc, i, tag) ==
    SelectSeq(Range(i + 1, SubEnd(doc, i)), LAMBDA j : doc[j].tag = tag)

\* xmlDoc.getElementsByTagName(tag): every element of the document.
docElementsByTagName(doc, tag) ==
    SelectSeq(Range(1, Len(doc)), LAMBDA j : doc[j].tag = tag)

\* element.children
children(doc, i) ==
    SelectSeq(Range(i + 1, SubEnd(doc, i)), LAMBDA j : doc[j].depth = doc[i].depth + 1)

RECURSIVE ConcatText(_, _, _)
ConcatText(doc, lo, hi) ==
    IF lo > hi THEN <<>> ELSE doc[lo].text \o ConcatText(doc, lo + 1, hi)

\* element.textContent: the text of the element and of its descendants.
textContent(doc, i) == ConcatText(doc, i, SubEnd(doc, i))

\* element.getElementsByTagName(tag)[0]?.textContent
FirstText(doc, i, tag) ==
    LET found == getElementsByTagName(doc, i, tag)
    IN IF found = <<>> THEN Undefined ELSE Str(textContent(doc, found[1]))

-----------------------------------------------------------------------------
(* parseXML, lines 35-111 (monthly) and 297-373 (ungrouped).               *)

\* A mutant: no anesthesia type is filtered out.
KeepsEverySurgery(anesthesiaType) == FALSE

\* anesthesiaType !== "LOCAL" fails: the surgery is skipped (lines 69, 331).
IsLocal(anesthesiaType) == anesthesiaType = Str(LOCAL_TEXT)

\* The object pushed at lines 70-89 and 332-351.
Surgery(doc, date, patientElement, surgeryElement, anesthesiaType) ==
    [ DataRealizacao |-> date,
      AvisoCirurgia  |-> OrEmpty(FirstText(doc, patientElement, "CD_AVISO_CIRURGIA")),
      Cirurgia       |-> OrEmpty(FirstText(doc, surgeryElement, "DECODE_NVL_CIR_AVI_DS_NPADRONI")),
      CodigoPaciente |-> OrEmpty(FirstText(doc, patientElement, "CD_PACIENTE")),
      NomePaciente   |-> OrEmpty(FirstText(doc, patientElement, "NM_PACIENTE")),
      Anestesista    |-> OrEmpty(FirstText(doc, surgeryElement, "CF_NM_ANESTESISTA")),
      TipoAnestesia  |-> OrEmpty(anesthesiaType) ]

RECURSIVE ProcessSurgeries(_, _, _, _, _, _)
\* The loop over gSurgeryElements, lines 61-92 and 323-354.
ProcessSurgeries(doc, date, patientElement, gSurgeryElements, h, acc) ==
    IF h > Len(gSurgeryElements) THEN acc
    ELSE LET surgeryElement == gSurgeryElements[h]
             anesthesiaType == FirstText(doc, surgeryElement, "DS_TIP_ANEST")
             pushed == IF IsLocal(anesthesiaType) THEN acc
                       ELSE Append(acc, Surgery(doc, date, patientElement,
                                                surgeryElement, anesthesiaType))
         IN ProcessSurgeries(doc, date, patientElement, gSurgeryElements, h + 1, pushed)

RECURSIVE ProcessPatients(_, _, _, _, _)
\* The loop over patientElements, lines 54-93 and 316-355. st.threw: reading
\* getElementsByTagName of the undefined LIST_G_CIRURGIA[0] throws a
\* TypeError (lines 58-59, 320-321), which ends the traversal.
ProcessPatients(doc, date, patientElements, j, st) ==
    IF j > Len(patientElements) \/ st.threw THEN st
    ELSE LET patientElement == patientElements[j]
             lists == getElementsByTagName(doc, patientElement, "LIST_G_CIRURGIA")
         IN IF lists = <<>> THEN [st EXCEPT !.threw = TRUE]
            ELSE ProcessPatients(doc, date, patientElements, j + 1,
                   [st EXCEPT !.surgeries =
                       ProcessSurgeries(doc, date, patientElement,
                           getElementsByTagName(doc, lists[1], "G_CIRURGIA"), 1, @)])

RECURSIVE processElement(_, _, _)
RECURSIVE ProcessChildren(_, _, _, _)
\* processElement, lines 48-99 and 310-361.
processElement(doc, element, st) ==
    IF st.threw THEN st
    ELSE LET matched ==
               IF doc[element].tag = "G_DT_REALIZACAO"
               THEN ProcessPatients(doc,
                        OrEmpty(FirstText(doc, element, "DT_REALIZACAO")),
                        getElementsByTagName(doc, element, "G_NM_PACIENTE"), 1, st)
               ELSE st
         IN ProcessChildren(doc, children(doc, element), 1, matched)

\* The loop over element.children, lines 96-98 and 358-360.
ProcessChildren(doc, cs, i, st) ==
    IF i > Len(cs) \/ st.threw THEN st
    ELSE ProcessChildren(doc, cs, i + 1, processElement(doc, cs[i], st))

RECURSIVE ToText(_)
\* A sequence of characters as one string, for the messages.
ToText(chars) == IF chars = <<>> THEN "" ELSE Head(chars) \o ToText(Tail(chars))

\* err.message of the TypeError (its wording is the engine's).
TypeErrorMessage == "Cannot read properties of undefined"
ParseErrorPrefix == "XML parsing error: "
ProcessingErrorPrefix == "Erro durante o processamento do XML: "

\* parseXML on the document DOMParser returned. Its outcome: threw (an Error
\* with `message` left the function), else the returned `surgeries`;
\* setError is the message the ungrouped variant hands to setError in its
\* catch block (lines 365-370) before it returns what was collected.
parseXML(v, doc) ==
    LET parseErrors == docElementsByTagName(doc, "parsererror")
        walked == processElement(doc, 1, [surgeries |-> <<>>, threw |-> FALSE])
    IN IF parseErrors # <<>>
       THEN [threw |-> TRUE,
             message |-> ParseErrorPrefix \o ToText(textContent(doc, parseErrors[1])),
             surgeries |-> <<>>, setError |-> Null]
       ELSE IF ~walked.threw
       THEN [threw |-> FALSE, message |-> "", surgeries |-> walked.surgeries,
             setError |-> Null]
       ELSE IF v = "monthly"
       THEN [threw |-> TRUE, message |-> ProcessingErrorPrefix \o TypeErrorMessage,
             surgeries |-> <<>>, setError |-> Null]
       ELSE [threw |-> FALSE, message |-> "", surgeries |-> walked.surgeries,
             setError |-> Msg(ProcessingErrorPrefix \o TypeErrorMessage)]

-----------------------------------------------------------------------------
(* The extractor on its own: DOMParser delivers a document, element by     *)
(* element in document order, and parseXML walks it. Leaf fields are       *)
(* text-only elements; the four structural groups nest freely.             *)

GroupTags == {"G_DT_REALIZACAO", "G_NM_PACIENTE", "LIST_G_CIRURGIA", "G_CIRURGIA"}
LeafKinds == { [tag |-> "DS_TIP_ANEST", text |-> LOCAL_TEXT],
               [tag |-> "DS_TIP_ANEST", text |-> GERAL_TEXT],
               [tag |-> "DT_REALIZACAO", text |-> <<"1", "5", "/", "0", "3", "/", "2", "4">>] }
LeafTags == {k.tag : k \in LeafKinds}
ElementKinds == {[tag |-> t, text |-> <<>>] : t \in GroupTags} \cup LeafKinds

\* The depths at which the next element of the document may open.
NextDepths(doc) ==
    IF doc = <<>> THEN {0}
    ELSE LET last == doc[Len(doc)]
         IN 1..(IF last.tag \in LeafTags THEN last.depth ELSE last.depth + 1)

InitExt == pc = "input" /\ IdleSan /\ IdleExt /\ IdleGrp /\ IdleUI

AppendElement ==
    /\ pc = "input" /\ Len(xmlDoc) < MaxNodes
    /\ \E k \in ElementKinds, d \in NextDepths(xmlDoc) :
          xmlDoc' = Append(xmlDoc, Element(k.tag, k.text, d))
    /\ UNCHANGED <<pc, parsedData, sanVars, grpVars, uiVars>>

ParseXML ==
    /\ pc = "input" /\ xmlDoc # <<>>
    /\ \E v \in Variants :
          /\ variant' = v
          /\ parsedData' = [done |-> TRUE, result |-> parseXML(v, xmlDoc)]
    /\ pc' = "parsed"
    /\ UNCHANGED <<xmlDoc, sanVars, grpVars, file, error, conversionStatus,
                   partialData, written, pending, lastAttempt>>

NextExt == AppendElement \/ ParseXML

SpecExt == InitExt /\ [][NextExt]_vars

-----------------------------------------------------------------------------
(* parseBrazilianDate and groupSurgeriesByMonth, lines 113-132.            *)

DigitChars == <<"0", "1", "2", "3", "4", "5", "6", "7", "8", "9">>
Digits == {DigitChars[i] : i \in 1..10}
DigitValue(c) == (CHOOSE i \in 1..10 : DigitChars[i] = c) - 1

RECURSIVE SplitFrom(_, _, _)
\* dateString.split("/"): the segments between the slashes, the one being
\* read kept in cur ("".split("/") is [""]).
SplitFrom(s, i, cur) ==
    IF i > Len(s) THEN <<cur>>
    ELSE IF s[i] = "/" THEN <<cur>> \o SplitFrom(s, i + 1, <<>>)
    ELSE SplitFrom(s, i + 1, Append(cur, s[i]))

Split(s) == SplitFrom(s, 1, <<>>)

RECURSIVE DecimalValue(_, _)
DecimalValue(seg, n) ==
    IF n = 0 THEN 0 ELSE 10 * DecimalValue(seg, n - 1) + DigitValue(seg[n])

\* Number(segment), on texts of digits and letters: "" is 0, a run of
\* digits its decimal value, anything else NaN.
ToNumber(seg) ==
    IF \A i \in 1..Len(seg) : seg[i] \in Digits
    THEN Num(DecimalValue(seg, Len(seg)))
    ELSE NaN

\* The k-th element of the destructured array as a number: a missing
\* element is undefined, and arithmetic on undefined gives NaN.
ArrayItem(numbers, k) == IF k <= Len(numbers) THEN numbers[k] ELSE NaN

IsLeapYear(y) == (y % 4 = 0 /\ y % 100 # 0) \/ y % 400 = 0
DaysInMonth(y, m) ==
    IF m = 2 THEN (IF IsLeapYear(y) THEN 29 ELSE 28)
    ELSE IF m \in {4, 6, 9, 11} THEN 30 ELSE 31

RECURSIVE DayShift(_, _, _)
\* The calendar day that is day `d` of month m (1..12) of year y, counting
\* on into the following months, or back into the preceding ones.
DayShift(y, m, d) ==
    IF d < 1
    THEN LET py == IF m = 1 THEN y - 1 ELSE y
             pm == IF m = 1 THEN 12 ELSE m - 1
         IN DayShift(py, pm, d + DaysInMonth(py, pm))
    ELSE IF d > DaysInMonth(y, m)
    THEN DayShift(IF m = 12 THEN y + 1 ELSE y, IF m = 12 THEN 1 ELSE m + 1,
                  d - DaysInMonth(y, m))
    ELSE [valid |-> TRUE, year |-> y, month |-> m - 1, day |-> d]

InvalidDate == [valid |-> FALSE, year |-> 0, month |-> 0, day |-> 0]

\* new Date(year, monthIndex, day): NaN in any argument gives an Invalid
\* Date; a year of 0..99 means 1900 + year; a month index outside 0..11
\* and a day outside the month carry over.
NewDate(year, monthIndex, day) ==
    IF year.nan \/ monthIndex.nan \/ day.nan THEN InvalidDate
    ELSE LET full == IF year.n \in 0..99 THEN 1900 + year.n ELSE year.n
         IN DayShift(full + (monthIndex.n \div 12), (monthIndex.n % 12) + 1, day.n)

Plus(a, b) == IF a.nan \/ b.nan THEN NaN ELSE Num(a.n + b.n)

\* A mutant: the month handed to Date as it is read, not as an index.
parseBrazilianDateNoIndex(dateString) ==
    LET numbers == [k \in 1..Len(Split(dateString)) |-> ToNumber(Split(dateString)[k])]
    IN NewDate(Plus(Num(2000), ArrayItem(numbers, 3)), ArrayItem(numbers, 2),
               ArrayItem(numbers, 1))

\* parseBrazilianDate, lines 113-116.
parseBrazilianDate(dateString) ==
    LET numbers == [k \in 1..Len(Split(dateString)) |-> ToNumber(Split(dateString)[k])]
    IN NewDate(Plus(Num(2000), ArrayItem(numbers, 3)),
               Plus(ArrayItem(numbers, 2), Num(-1)),
               ArrayItem(numbers, 1))

\* (n).toString().padStart(2, "0")
PadStart2(n) == IF n >= 0 /\ n < 10 THEN "0" \o ToString(n) ELSE ToString(n)

\* The template string of lines 123-125; getFullYear() and getMonth() of an
\* Invalid Date are NaN.
MonthKey(date) ==
    IF date.valid THEN ToString(date.year) \o "-" \o PadStart2(date.month + 1)
    ELSE "NaN-NaN"

\* Lines 126-129: the bucket of monthKey, made when missing, gets the
\* record pushed. acc lists the object's keys in insertion order.
PushToBucket(acc, monthKey, surgery) ==
    IF \E g \in 1..Len(acc) : acc[g].key = monthKey
    THEN [g \in 1..Len(acc) |->
            IF acc[g].key = monthKey
            THEN [acc[g] EXCEPT !.rows = Append(@, surgery)] ELSE acc[g]]
    ELSE Append(acc, [key |-> monthKey, rows |-> <<surgery>>])

RECURSIVE ReduceFrom(_, _, _)
\* surgeries.reduce(..., {}), lines 121-131.
ReduceFrom(records, i, acc) ==
    IF i > Len(records) THEN acc
    ELSE ReduceFrom(records, i + 1,
            PushToBucket(acc,
                MonthKey(parseBrazilianDate(records[i].DataRealizacao.val)),
                records[i]))

\* groupSurgeriesByMonth: nothing in it throws, so it always returns.
groupSurgeriesByMonth(records) ==
    [threw |-> FALSE, groups |-> ReduceFrom(records, 1, <<>>)]

-----------------------------------------------------------------------------
(* The grouper on its own: the environment supplies records one by one,    *)
(* numbered in "Aviso Cirurgia", and groupSurgeriesByMonth is applied.     *)

Slash(d, m, y) == d \o <<"/">> \o m \o <<"/">> \o y
Days == {<<"0", "1">>, <<"3", "1">>}
Months == {<<"0", "2">>, <<"0", "3">>, <<"1", "3">>}
Years == {<<"2", "3">>, <<"2", "4">>}
MalformedDates ==
    { <<>>,
      <<"a", "/", "0", "3", "/", "2", "4">>,
      <<"1", "5", "/", "0", "3">>,
      <<"1", "5", "/", "0", "3", "/", "2", "4", "/", "0", "1">> }
DateTexts == {Slash(d, m, y) : d \in Days, m \in Months, y \in Years}
                 \cup MalformedDates

Record(n, dateText) ==
    [ DataRealizacao |-> Str(dateText),
      AvisoCirurgia  |-> Str(<<DigitChars[n + 1]>>),
      Cirurgia       |-> Str(<<>>),
      CodigoPaciente |-> Str(<<>>),
      NomePaciente   |-> Str(<<>>),
      Anestesista    |-> Str(<<>>),
      TipoAnestesia  |-> Str(GERAL_TEXT) ]

InitGrp == pc = "input" /\ IdleSan /\ IdleExt /\ IdleGrp /\ IdleUI

AppendRecord ==
    /\ pc = "input" /\ Len(surgeries) < MaxRecords
    /\ \E t \in DateTexts :
          surgeries' = Append(surgeries, Record(Len(surgeries) + 1, t))
    /\ UNCHANGED <<pc, groupedSurgeries, sanVars, extVars, uiVars>>

GroupSurgeriesByMonth ==
    /\ pc = "input"
    /\ groupedSurgeries' = [done |-> TRUE, result |-> groupSurgeriesByMonth(surgeries)]
    /\ pc' = "grouped"
    /\ UNCHANGED <<surgeries, sanVars, extVars, uiVars>>

NextGrp == AppendRecord \/ GroupSurgeriesByMonth

SpecGrp == InitGrp /\ [][NextGrp]_vars

-----------------------------------------------------------------------------
(* convertToExcel and handleSubmit, lines 134-173 (monthly) and 375-412    *)
(* (ungrouped).                                                            *)

\* convertToExcel: one XLSX.writeFile call, recorded as the file name and
\* the rows of its sheet (lines 134-142 and 375-383).
convertToExcel(data, monthKey) ==
    [name |-> "cirurgias_" \o monthKey \o ".xlsx", rows |-> data]
convertToExcelUngrouped(data) ==
    [name |-> "cirurgias.xlsx", rows |-> data]

\* A mutant: every file gets the rows of the first month.
WriteMonthsFirstRows(groups) ==
    [g \in 1..Len(groups) |-> convertToExcel(groups[1].rows, groups[g].key)]

\* months.forEach(month => convertToExcel(groupedSurgeries[month], month)),
\* lines 157-161; Object.keys lists the month keys in insertion order.
WriteMonths(groups) ==
    [g \in 1..Len(groups) |-> convertToExcel(groups[g].rows, groups[g].key)]

\* Lines 398-400: one file when there are records, none otherwise.
WriteUngrouped(data) ==
    IF Len(data) > 0 THEN <<convertToExcelUngrouped(data)>> ELSE <<>>

SubmitErrorPrefix == "Erro ao processar o arquivo: "
NoDataMonthly == "Nenhum dado válido encontrado no arquivo XML."
NoDataUngrouped == "Nenhum dado valido encontrado no arquivo XML."
ReadErrorMonthly == "NotReadableError"
ReadErrorUngrouped == "Erro ao ler o arquivo."

StatusMessage(records, months) ==
    "Processados " \o ToString(records) \o " registros. Criados "
        \o ToString(months) \o " arquivos Excel."

\* The body of handleSubmit after the read, lines 152-172 (monthly): what
\* it leaves in the component's state and what it wrote. st is the state
\* it starts from.
ConvertMonthly(doc, st) ==
    LET parsed == parseXML("monthly", doc)
        grouped == groupSurgeriesByMonth(parsed.surgeries)
    IN IF parsed.threw
       THEN [st EXCEPT !.error = Msg(SubmitErrorPrefix \o parsed.message),
                       !.written = <<>>, !.parsed = parsed]
       ELSE IF Len(parsed.surgeries) > 0
       THEN [st EXCEPT !.conversionStatus =
                           Msg(StatusMessage(Len(parsed.surgeries), Len(grouped.groups))),
                       !.error = Null,
                       !.written = WriteMonths(grouped.groups),
                       !.parsed = parsed]
       ELSE [st EXCEPT !.error = Msg(NoDataMonthly), !.written = <<>>,
                       !.parsed = parsed]

\* reader.onload, lines 392-407 (ungrouped). The setError of parseXML's
\* catch block comes first and is overwritten by the setError calls of
\* lines 400 and 402.
ConvertUngrouped(doc, st) ==
    LET parsed == parseXML("ungrouped", doc)
        inParse == IF parsed.setError.isNull THEN st
                   ELSE [st EXCEPT !.error = parsed.setError]
    IN IF parsed.threw
       THEN [inParse EXCEPT !.error = Msg(SubmitErrorPrefix \o parsed.message),
                            !.written = <<>>, !.parsed = parsed]
       ELSE [inParse EXCEPT !.partialData = parsed.surgeries,
                            !.written = WriteUngrouped(parsed.surgeries),
                            !.error = IF Len(parsed.surgeries) > 0 THEN Null
                                      ELSE Msg(NoDataUngrouped),
                            !.parsed = parsed]

Convert(v, doc, st) ==
    IF v = "monthly" THEN ConvertMonthly(doc, st) ELSE ConvertUngrouped(doc, st)

\* The read failed: the catch of line 170 (monthly, the rejected
\* arrayBuffer()), reader.onerror of lines 408-410 (ungrouped).
ReadError(v, st) ==
    [st EXCEPT !.error = IF v = "monthly"
                         THEN Msg(SubmitErrorPrefix \o ReadErrorMonthly)
                         ELSE Msg(ReadErrorUngrouped),
               !.written = <<>>]

ComponentState == [error |-> error, conversionStatus |-> conversionStatus,
                   partialData |-> partialData, written |-> written,
                   parsed |-> parsedData]

\* What the component renders, lines 235-242 and 474-481.
ErrorShown == Truthy(error)
SuccessShown == IF variant = "monthly" THEN Truthy(conversionStatus)
                ELSE Len(partialData) > 0

-----------------------------------------------------------------------------
(* Export-shaped documents: a root holding date groups, each with its date *)
(* leaf (or none), its patients (with or without a surgery list) and their *)
(* surgeries (with or without an anesthesia leaf).                         *)

RootDocument == <<Element("ROOT", <<>>, 0)>>
ParserErrorDocument == <<Element("parsererror", <<"e", "r", "r">>, 0)>>

NoLeaf == <<"-">>      \* stands for "the leaf element is absent"
DATE_MARCH == <<"1", "5", "/", "0", "3", "/", "2", "4">>
DATE_APRIL == <<"0", "1", "/", "0", "4", "/", "2", "4">>
DATE_MONTH13 == <<"3", "1", "/", "1", "3", "/", "2", "4">>
DocDates == {NoLeaf, DATE_MARCH, DATE_APRIL, DATE_MONTH13}
AnesthesiaTypes == {NoLeaf, LOCAL_TEXT, GERAL_TEXT}

Leaf(tag, text, depth) ==
    IF text = NoLeaf THEN <<>> ELSE <<Element(tag, text, depth)>>

WithDateGroup(doc, date) ==
    doc \o <<Element("G_DT_REALIZACAO", <<>>, 1)>> \o Leaf("DT_REALIZACAO", date, 2)

WithPatient(doc, withList) ==
    doc \o <<Element("G_NM_PACIENTE", <<>>, 2)>>
        \o (IF withList THEN <<Element("LIST_G_CIRURGIA", <<>>, 3)>> ELSE <<>>)

WithSurgery(doc, type) ==
    doc \o <<Element("G_CIRURGIA", <<>>, 4)>> \o Leaf("DS_TIP_ANEST", type, 5)

Items(doc) ==
    Len(SelectSeq(doc, LAMBDA e : e.tag \in {"G_DT_REALIZACAO", "G_NM_PACIENTE", "G_CIRURGIA"}))

\* The last patient of the document has a surgery list to add to.
LastPatientHasList(doc) ==
    \E l \in 1..Len(doc) :
        /\ doc[l].tag = "LIST_G_CIRURGIA"
        /\ \A j \in (l + 1)..Len(doc) : doc[j].tag \notin {"G_NM_PACIENTE", "G_DT_REALIZACAO"}

-----------------------------------------------------------------------------
(* One conversion: a file is chosen (built group by group), submitted to   *)
(* either variant, and read without error.                                 *)

InitConv ==
    /\ pc = "input" /\ IdleSan /\ IdleGrp /\ IdleUI
    /\ xmlDoc \in {RootDocument, ParserErrorDocument}
    /\ parsedData = [done |-> FALSE]

AddDateGroup ==
    /\ pc = "input" /\ xmlDoc[1].tag = "ROOT" /\ Items(xmlDoc) < MaxItems
    /\ \E date \in DocDates : xmlDoc' = WithDateGroup(xmlDoc, date)
    /\ UNCHANGED <<pc, parsedData, sanVars, grpVars, uiVars>>

AddPatient ==
    /\ pc = "input" /\ Items(xmlDoc) < MaxItems
    /\ \E g \in 1..Len(xmlDoc) : xmlDoc[g].tag = "G_DT_REALIZACAO"
    /\ \E withList \in BOOLEAN : xmlDoc' = WithPatient(xmlDoc, withList)
    /\ UNCHANGED <<pc, parsedData, sanVars, grpVars, uiVars>>

AddSurgery ==
    /\ pc = "input" /\ Items(xmlDoc) < MaxItems
    /\ LastPatientHasList(xmlDoc)
    /\ \E type \in AnesthesiaTypes : xmlDoc' = WithSurgery(xmlDoc, type)
    /\ UNCHANGED <<pc, parsedData, sanVars, grpVars, uiVars>>

SubmitFile ==
    /\ pc = "input"
    /\ \E v \in Variants :
          \E after \in {Convert(v, xmlDoc, ComponentState)} :
             /\ variant' = v
             /\ error' = after.error
             /\ conversionStatus' = after.conversionStatus
             /\ partialData' = after.partialData
             /\ written' = after.written
             /\ parsedData' = [done |-> TRUE, result |-> after.parsed]
             /\ lastAttempt' = IF Truthy(after.error) THEN "error" ELSE "success"
    /\ pc' = "submitted"
    /\ UNCHANGED <<xmlDoc, sanVars, grpVars, file, pending>>

NextConv == AddDateGroup \/ AddPatient \/ AddSurgery \/ SubmitFile

SpecConv == InitConv /\ [][NextConv]_vars

-----------------------------------------------------------------------------
(* The component over time: files are selected and submitted, and the      *)
(* reads started by handleSubmit are delivered, or fail, later and in any  *)
(* order.                                                                  *)

GoodExport ==
    WithSurgery(WithPatient(WithDateGroup(RootDocument, DATE_MARCH), TRUE), GERAL_TEXT)
SelectableFiles ==
    { ParserErrorDocument,
      RootDocument,
      GoodExport,
      WithPatient(GoodExport, FALSE),
      WithPatient(WithDateGroup(RootDocument, DATE_MARCH), FALSE) }

NoFile == [selected |-> FALSE, doc |-> <<>>]
Selected(doc) == [selected |-> TRUE, doc |-> doc]

Init ==
    /\ pc = "running" /\ IdleSan /\ IdleExt /\ IdleGrp
    /\ variant \in Variants
    /\ file = NoFile /\ error = Null /\ conversionStatus = Null
    /\ partialData = <<>> /\ written = <<>> /\ pending = <<>>
    /\ lastAttempt = "none"

\* handleFileChange, lines 20-26 and 281-287. event.target.files[0] is
\* undefined when the selection is emptied.
HandleFileChange ==
    /\ pc = "running"
    /\ \E f \in {NoFile} \cup {Selected(d) : d \in SelectableFiles} : file' = f
    /\ error' = Null
    /\ conversionStatus' = IF variant = "monthly" THEN Null ELSE conversionStatus
    /\ partialData' = IF variant = "ungrouped" THEN <<>> ELSE partialData
    /\ UNCHANGED <<pc, sanVars, extVars, grpVars, variant, written, pending, lastAttempt>>

\* handleSubmit up to the read, lines 144-151 and 385-391, 411: nothing
\* happens without a file; else the read of the file starts.
HandleSubmit ==
    /\ pc = "running" /\ file.selected /\ Len(pending) < MaxPending
    /\ pending' = Append(pending, file.doc)
    /\ UNCHANGED <<pc, sanVars, extVars, grpVars, variant, file, error,
                   conversionStatus, partialData, written, lastAttempt>>

Without(seq, i) == SubSeq(seq, 1, i - 1) \o SubSeq(seq, i + 1, Len(seq))

\* The read is delivered: the rest of handleSubmit (monthly), reader.onload
\* (ungrouped).
ReadDelivered ==
    /\ pc = "running"
    /\ \E i \in 1..Len(pending) :
          \E after \in {Convert(variant, pending[i], ComponentState)} :
             /\ error' = after.error
             /\ conversionStatus' = after.conversionStatus
             /\ partialData' = after.partialData
             /\ written' = after.written
             /\ lastAttempt' = IF Truthy(after.error) THEN "error" ELSE "success"
             /\ pending' = Without(pending, i)
    /\ UNCHANGED <<pc, sanVars, extVars, grpVars, variant, file>>

\* The read fails.
ReadFailed ==
    /\ pc = "running"
    /\ \E i \in 1..Len(pending) :
          \E after \in {ReadError(variant, ComponentState)} :
             /\ error' = after.error
             /\ written' = after.written
             /\ lastAttempt' = "error"
             /\ pending' = Without(pending, i)
    /\ UNCHANGED <<pc, sanVars, extVars, grpVars, variant, file,
                   conversionStatus, partialData>>

Next == HandleFileChange \/ HandleSubmit \/ ReadDelivered \/ ReadFailed

Spec == Init /\ [][Next]_vars

-----------------------------------------------------------------------------
(* Properties of the extractor (SpecExt).                                  *)

Records == parsedData.result.surgeries

IsAncestor(doc, a, b) == a < b /\ b <= SubEnd(doc, a)

\* Surgery group s lies below a surgery list, below a patient group, below
\* a date group.
OnGroupPath(doc, s) ==
    /\ doc[s].tag = "G_CIRURGIA"
    /\ \E d, p, l \in 1..Len(doc) :
          /\ doc[d].tag = "G_DT_REALIZACAO" /\ doc[p].tag = "G_NM_PACIENTE"
          /\ doc[l].tag = "LIST_G_CIRURGIA"
          /\ IsAncestor(doc, d, p) /\ IsAncestor(doc, p, l) /\ IsAncestor(doc, l, s)

AnesthesiaOf(doc, s) == FirstText(doc, s, "DS_TIP_ANEST")

\* Surgery group s lies in the first surgery list of a patient group of a
\* date group.
InFirstList(doc, s) ==
    /\ doc[s].tag = "G_CIRURGIA"
    /\ \E d, p \in 1..Len(doc) :
          /\ doc[d].tag = "G_DT_REALIZACAO" /\ doc[p].tag = "G_NM_PACIENTE"
          /\ IsAncestor(doc, d, p)
          /\ \E l \in (p + 1)..SubEnd(doc, p) :
                /\ doc[l].tag = "LIST_G_CIRURGIA"
                /\ \A k \in (p + 1)..(l - 1) : doc[k].tag # "LIST_G_CIRURGIA"
                /\ IsAncestor(doc, l, s)

RECURSIVE ExpectedTypesFrom(_, _)
ExpectedTypesFrom(doc, s) ==
    IF s > Len(doc) THEN <<>>
    ELSE (IF OnGroupPath(doc, s) /\ AnesthesiaOf(doc, s) # Str(LOCAL_TEXT)
          THEN <<OrEmpty(AnesthesiaOf(doc, s))>> ELSE <<>>)
             \o ExpectedTypesFrom(doc, s + 1)

\* C7: on a tree that is walked without an error, parseXML returns exactly
\* one record per non-LOCAL surgery group lying on a date group / patient
\* group / surgery list / surgery group path, in document order, none
\* twice and none left out (groups nested in one another and patients with
\* several surgery lists included).
C7_OneRecordPerSurgery ==
    (parsedData.done /\ ~parsedData.result.threw /\ parsedData.result.setError.isNull)
        => [i \in 1..Len(Records) |-> Records[i].TipoAnestesia]
               = ExpectedTypesFrom(xmlDoc, 1)

SurgeryFields == {"DataRealizacao", "AvisoCirurgia", "Cirurgia", "CodigoPaciente",
                  "NomePaciente", "Anestesista", "TipoAnestesia"}

\* C9: every record returned by parseXML has all seven fields, each a
\* string; a surgery group without a DS_TIP_ANEST leaf, in the first surgery
\* list of its patient, still gives a record, whose "Tipo Anestesia" is the
\* empty string.
C9_FieldsAreStrings ==
    parsedData.done =>
        /\ \A i \in 1..Len(Records) :
              /\ DOMAIN Records[i] = SurgeryFields
              /\ \A f \in SurgeryFields : Records[i][f].type = "string"
        /\ (/\ ~parsedData.result.threw /\ parsedData.result.setError.isNull
            /\ \E s \in 1..Len(xmlDoc) :
                  InFirstList(xmlDoc, s) /\ AnesthesiaOf(xmlDoc, s) = Undefined)
             => \E i \in 1..Len(Records) : Records[i].TipoAnestesia = Str(<<>>)

\* A record was built from a date group that has its date leaf and a
\* surgery group that has no anesthesia leaf.
C9_Witness ==
    /\ parsedData.done
    /\ \E i \in 1..Len(Records) :
          /\ Records[i].TipoAnestesia = Str(<<>>)
          /\ Records[i].DataRealizacao # Str(<<>>)
          /\ Records[i].NomePaciente = Str(<<>>)

-----------------------------------------------------------------------------
(* Properties of the sanitizer (SpecSan).                                  *)

RECURSIVE DropDollarFrom(_, _)
\* The rewriting the claim describes: each `<name$` and `</name$` loses
\* its `$` and keeps its name.
DropDollarFrom(s, i) ==
    IF i > Len(s) THEN <<>>
    ELSE LET m == MatchEnd(s, i)
         IN IF m = 0 THEN <<s[i]>> \o DropDollarFrom(s, i + 1)
            ELSE SubSeq(s, i, m - 1) \o DropDollarFrom(s, m + 1)

\* C2: sanitizeXML strips at most one leading byte-order mark and rewrites
\* every tag name ending in `$`, opening or closing, to the same name
\* without the `$`, leaving the rest of the text as it is.
C2_KeepsTagName ==
    sanitizedXml.done => sanitizedXml.val = DropDollarFrom(StripBOM(xmlString), 1)

\* C3: sanitizeXML applied to its own result changes nothing.
C3_Idempotent ==
    resanitizedXml.done => resanitizedXml.val = sanitizedXml.val

-----------------------------------------------------------------------------
(* Properties of the grouper (SpecGrp).                                    *)

IsTwoDigits(seg) == Len(seg) = 2 /\ \A i \in 1..2 : seg[i] \in Digits

\* The text is a calendar date written DD/MM/YY.
IsValidDateText(t) ==
    LET segs == Split(t)
    IN /\ Len(segs) = 3
       /\ \A k \in 1..3 : IsTwoDigits(segs[k])
       /\ DecimalValue(segs[2], 2) \in 1..12
       /\ DecimalValue(segs[1], 2) \in
              1..DaysInMonth(2000 + DecimalValue(segs[3], 2), DecimalValue(segs[2], 2))

\* The month key the claim gives a valid date: "20" YY "-" MM.
ClaimedKey(t) ==
    LET segs == Split(t)
    IN "20" \o segs[3][1] \o segs[3][2] \o "-" \o segs[2][1] \o segs[2][2]

DateOf(r) == r.DataRealizacao.val
Groups == groupedSurgeries.result.groups

RECURSIVE TotalRows(_, _)
TotalRows(groups, g) ==
    IF g > Len(groups) THEN 0 ELSE Len(groups[g].rows) + TotalRows(groups, g + 1)

\* C4: when a record's date is no valid day/month/2-digit-year date,
\* groupSurgeriesByMonth fails for the whole grouping and returns no mapping.
C4_InvalidDateFails ==
    (groupedSurgeries.done
        /\ \E i \in 1..Len(surgeries) : ~IsValidDateText(DateOf(surgeries[i])))
      => groupedSurgeries.result.threw

\* C6: for records with valid DD/MM/YY dates, the bucket of each key
\* (2000+YY)-MM is exactly the subsequence of the input with that year and
\* month, in input order; every record is in a bucket, no bucket is empty,
\* no key is listed twice, and the bucket sizes sum to the number of records.
C6_BucketsAreSubsequences ==
    (groupedSurgeries.done
        /\ \A i \in 1..Len(surgeries) : IsValidDateText(DateOf(surgeries[i])))
      => /\ ~groupedSurgeries.result.threw
         /\ \A a, b \in 1..Len(Groups) : a # b => Groups[a].key # Groups[b].key
         /\ \A a \in 1..Len(Groups) :
               /\ Groups[a].rows # <<>>
               /\ Groups[a].rows =
                     SelectSeq(surgeries, LAMBDA r : ClaimedKey(DateOf(r)) = Groups[a].key)
         /\ \A i \in 1..Len(surgeries) :
               \E a \in 1..Len(Groups) : Groups[a].key = ClaimedKey(DateOf(surgeries[i]))
         /\ TotalRows(Groups, 1) = Len(surgeries)

\* Three records with valid dates were grouped into two months, the first
\* and the last of them into the same one.
C6_Witness ==
    /\ groupedSurgeries.done
    /\ Len(surgeries) = 3
    /\ \A i \in 1..3 : IsValidDateText(DateOf(surgeries[i]))
    /\ Len(Groups) = 2
    /\ Groups[1].rows = <<surgeries[1], surgeries[3]>>

-----------------------------------------------------------------------------
(* Properties of one conversion (SpecConv).                                *)

\* Some patient group below a date group has no surgery list below it.
HasPatientWithoutList(doc) ==
    \E d, p \in 1..Len(doc) :
        /\ doc[d].tag = "G_DT_REALIZACAO" /\ doc[p].tag = "G_NM_PACIENTE"
        /\ IsAncestor(doc, d, p)
        /\ getElementsByTagName(doc, p, "LIST_G_CIRURGIA") = <<>>

StructuralError == ProcessingErrorPrefix \o TypeErrorMessage

\* C5: a patient group without a surgery list makes the conversion fail, in
\* both variants: nothing is written, the status shown is the structural
\* error, and it is neither a "no data" outcome nor a success.
C5_MissingListIsFatal ==
    (pc = "submitted" /\ xmlDoc[1].tag = "ROOT" /\ HasPatientWithoutList(xmlDoc))
      => /\ written = <<>>
         /\ error \in {Msg(StructuralError), Msg(SubmitErrorPrefix \o StructuralError)}
         /\ ~SuccessShown

KeyOf(r) == MonthKey(parseBrazilianDate(DateOf(r)))
ArtifactName(key) == "cirurgias_" \o key \o ".xlsx"

\* C8: handleSubmit writes one file per non-empty group and never mixes
\* groups: the monthly variant writes as many files as the records have
\* month keys, each holding exactly the records of its key, in order; the
\* ungrouped variant writes one file with all the records, or none when
\* there are no records. Nothing is written when parseXML fails.
C8_OneArtifactPerGroup ==
    pc = "submitted" =>
        IF parsedData.result.threw THEN written = <<>>
        ELSE IF variant = "monthly"
        THEN LET keys == {KeyOf(Records[i]) : i \in 1..Len(Records)}
             IN /\ Len(written) = Cardinality(keys)
                /\ \A a, b \in 1..Len(written) :
                      a # b => written[a].name # written[b].name
                /\ \A a \in 1..Len(written) :
                      \E k \in keys :
                         /\ written[a].name = ArtifactName(k)
                         /\ written[a].rows # <<>>
                         /\ written[a].rows =
                               SelectSeq(Records, LAMBDA r : KeyOf(r) = k)
        ELSE written = IF Records = <<>> THEN <<>>
                       ELSE <<[name |-> "cirurgias.xlsx", rows |-> Records]>>

\* The monthly variant wrote two files.
C8_Witness ==
    /\ pc = "submitted" /\ variant = "monthly"
    /\ Len(written) = 2

-----------------------------------------------------------------------------
(* Properties of the component over time (Spec).                           *)

\* C10: an error message and a success indication are never shown
\* together, and once a conversion attempt has ended in an error no
\* success indication of an earlier attempt is left on screen.
C10_ErrorExcludesSuccess ==
    /\ ~(ErrorShown /\ SuccessShown)
    /\ lastAttempt = "error" => ~SuccessShown

=============================================================================
